---- MODULE Spec2Model ----
(***************************************************************************)
(* Model of src/src/logind-util.c: the systemd-logind session helper of    *)
(* the compositor.  The state is the struct weston_logind of a connected   *)
(* session, the compositor's session_active flag, the pending calls the    *)
(* bus connection holds and the kernel state of the VT.  Each action is    *)
(* one entry point of the file, run to completion (the file runs on one    *)
(* event-loop thread): a bus message handed to filter_dbus, the reply of   *)
(* the Active query, a signalfd event, and the exported calls.             *)
(*                                                                         *)
(* Every handler records the side effects it makes, in order, in ops, and  *)
(* the event it handled in last; pre holds the state the handler started   *)
(* from.                                                                   *)
(*                                                                         *)
(* Spec starts from a connected session and runs its handlers; LifeSpec    *)
(* starts before weston_logind_connect and follows the session through     *)
(* setup, the restore of the VT and teardown.                              *)
(***************************************************************************)
EXTENDS Integers, Sequences, FiniteSets, TLC

VARIABLES
    sync_drm,        \* wl->sync_drm
    sid,             \* wl->sid
    kb_mode,         \* wl->kb_mode
    session_active,  \* wl->compositor->session_active
    pending_active,  \* wl->pending_active (0 is NULL)
    calls,           \* pending calls of the connection that have a notify set
    cancelled,       \* pending calls that were cancelled
    nextId,          \* the next DBusPendingCall the connection hands out
    phase,           \* "unconnected", "failed" (connect returned -1),
                     \* "running", "exited" (exit(-1)) or "destroyed"
    vt,              \* kernel state of the VT and the descriptors of wl
    ops,             \* side effects of the last handler, in order
    last,            \* the event the last handler was given
    pre,             \* the state the last handler started from
    nevents,         \* handlers run so far
    emitted,         \* session_signal emissions so far
    changed          \* changes of session_active so far

vars == <<sync_drm, sid, kb_mode, session_active, pending_active, calls,
          cancelled, nextId, phase, vt, ops, last, pre, nevents, emitted,
          changed>>

-----------------------------------------------------------------------------
(* Bounds of the model *)

MaxEvents == 3
MaxChanged == 2
MaxInvalidated == 2

(* Program constants *)

DRM_MAJOR == 226

Majors == {DRM_MAJOR, 13}
Minors == {0, 1}
SessionIds == {"c1", "c2"}
KbModes == {"K_XLATE", "K_UNICODE"}
KernelKbModes == KbModes \cup {"K_OFF"}
PauseTypes == {"pause", "force", "gone"}

SeqsUpTo(S, n) == UNION {[1..k -> S] : k \in 0..n}

-----------------------------------------------------------------------------
(* Bus messages *)

\* A D-Bus value as parse_active sees it: its type, the type inside a
\* variant, and the boolean it carries.
Value(type, inner, b) == [type |-> type, inner |-> inner, b |-> b]

Values ==
    { Value("variant", "boolean", TRUE),
      Value("variant", "boolean", FALSE),
      Value("variant", "string", FALSE),
      Value("boolean", "none", TRUE) }

\* One element of the changed-properties array: the type of its key, the
\* key, whether a value follows the key, and the value.
DictEntry(ktype, name, hasval, val) ==
    [ktype |-> ktype, name |-> name, hasval |-> hasval, val |-> val]

DictEntries ==
    { DictEntry("string", "Active", TRUE, Value("variant", "boolean", TRUE)),
      DictEntry("string", "Active", TRUE, Value("variant", "boolean", FALSE)),
      DictEntry("string", "Active", TRUE, Value("variant", "string", FALSE)),
      DictEntry("string", "Type", TRUE, Value("variant", "string", FALSE)),
      DictEntry("uint32", "", TRUE, Value("variant", "string", FALSE)) }

PropertyNames == {"Active", "Type"}

\* PropertiesChanged(interface, changed, invalidated): a0, a1, a2 are the
\* types of the three arguments ("none": the argument is missing).
PropertiesChanged(a0, a1, ch, a2, inv) ==
    [sig |-> "PropertiesChanged", a0 |-> a0, a1 |-> a1, changed_props |-> ch,
     a2 |-> a2, invalidated |-> inv]

PropertiesChangedMsgs ==
    { PropertiesChanged(a0, "none", <<>>, "none", <<>>) : a0 \in {"none", "uint32"} }
    \cup { PropertiesChanged("string", a1, <<>>, "none", <<>>) : a1 \in {"none", "string"} }
    \cup { PropertiesChanged("string", "array", ch, a2, <<>>) :
             ch \in SeqsUpTo(DictEntries, MaxChanged), a2 \in {"none", "string"} }
    \cup { PropertiesChanged("string", "array", ch, "array", inv) :
             ch \in SeqsUpTo(DictEntries, MaxChanged),
             inv \in SeqsUpTo(PropertyNames, MaxInvalidated) }

\* PauseDevice(major, minor, type); ok: the arguments have these types.
PauseDeviceMsgs ==
    { [sig |-> "PauseDevice", ok |-> TRUE, major |-> ma, minor |-> mi, type |-> t] :
        ma \in Majors, mi \in Minors, t \in PauseTypes }
    \cup { [sig |-> "PauseDevice", ok |-> FALSE] }

\* ResumeDevice(major, ...); ok: the first argument is a uint32.
ResumeDeviceMsgs ==
    { [sig |-> "ResumeDevice", ok |-> TRUE, major |-> ma] : ma \in Majors }
    \cup { [sig |-> "ResumeDevice", ok |-> FALSE] }

\* SessionRemoved(name, object path); ok: the arguments have these types.
SessionRemovedMsgs ==
    { [sig |-> "SessionRemoved", ok |-> TRUE, name |-> n] : n \in SessionIds }
    \cup { [sig |-> "SessionRemoved", ok |-> FALSE] }

DisconnectedMsgs == { [sig |-> "Disconnected"] }

\* Any message filter_dbus has no branch for.
OtherMsgs == { [sig |-> "NameAcquired"] }

\* The reply a pending call completes with.
Replies ==
    { [type |-> "method_return", hasargs |-> TRUE, val |-> v] : v \in Values }
    \cup { [type |-> "method_return", hasargs |-> FALSE],
           [type |-> "error", hasargs |-> TRUE,
            val |-> Value("string", "none", FALSE)] }

\* How far the construction of an outgoing message gets: the message is not
\* allocated, its arguments are not appended, or it is handed to the
\* connection.
SendOutcomes == {"nomem_new", "nomem_append", "ok"}

\* The same for the Active query: in addition the connection may fail to
\* queue it, or to set the notify function on the pending call.
QueryOutcomes == {"nomem_new", "nomem_append", "nomem_send", "nomem_notify", "ok"}

\* The results of the four ioctls of weston_logind_restore.
RestoreResults == [1..4 -> BOOLEAN]

-----------------------------------------------------------------------------
(* The state a handler works on *)

Cur ==
    [session_active |-> session_active, pending_active |-> pending_active,
     calls |-> calls, cancelled |-> cancelled, nextId |-> nextId,
     phase |-> phase, vt |-> vt, ops |-> <<>>]

Do(w, o) == [w EXCEPT !.ops = Append(@, o)]


-----------------------------------------------------------------------------
(* Kernel and library calls *)

\* ioctl(wl->vt, req, arg) with result ok: the kernel state changes when it
\* succeeds.
ioctl(w, req, arg, ok) ==
    LET k == IF ~ok THEN w.vt
             ELSE IF req = "KDSETMODE" THEN [w.vt EXCEPT !.kd = arg]
             ELSE IF req = "KDSKBMUTE" THEN [w.vt EXCEPT !.mute = arg]
             ELSE IF req = "KDSKBMODE" THEN [w.vt EXCEPT !.kbmode = arg]
             ELSE IF req = "VT_SETMODE" THEN [w.vt EXCEPT !.mode = arg]
             ELSE w.vt
    IN  Do([w EXCEPT !.vt = k],
           [op |-> "ioctl", req |-> req, arg |-> arg, ok |-> ok])

\* dbus_pending_call_cancel: the connection drops the call, its notify
\* function is never run.
dbus_pending_call_cancel(w, id) ==
    Do([w EXCEPT !.calls = @ \ {id}, !.cancelled = @ \cup {id}],
       [op |-> "cancel", id |-> id])

dbus_pending_call_unref(w, id) == Do(w, [op |-> "unref", id |-> id])

-----------------------------------------------------------------------------
(* Device calls *)

weston_logind_release_device(w, major, minor, o) ==
    IF o = "ok"
    THEN Do(w, [op |-> "send", member |-> "ReleaseDevice",
                major |-> major, minor |-> minor])
    ELSE w

weston_logind_pause_device_complete(w, major, minor, o) ==
    IF o = "ok"
    THEN Do(w, [op |-> "send", member |-> "PauseDeviceComplete",
                major |-> major, minor |-> minor])
    ELSE w

\* Mutant: the unwinding never gives the control back.
weston_logind_release_control_never(w, o) == w

weston_logind_release_control(w, o) ==
    IF o # "nomem_new"
    THEN Do(w, [op |-> "send", member |-> "ReleaseControl", major |-> 0, minor |-> 0])
    ELSE w

-----------------------------------------------------------------------------
(* The VT *)

\* Mutant: the keyboard gets the mode the kernel holds, not the saved one.
weston_logind_restore_current(w, rr) ==
    LET w1 == ioctl(w, "KDSETMODE", "KD_TEXT", rr[1])
        w2 == ioctl(w1, "KDSKBMUTE", "0", rr[2])
        w3 == ioctl(w2, "KDSKBMODE", w.vt.kbmode, rr[3])
    IN  ioctl(w3, "VT_SETMODE", "VT_AUTO", rr[4])

\* Mutant: the restore gives up at the first ioctl that fails.
weston_logind_restore_stops(w, rr) ==
    LET w1 == ioctl(w, "KDSETMODE", "KD_TEXT", rr[1])
        w2 == IF rr[1] THEN ioctl(w1, "KDSKBMUTE", "0", rr[2]) ELSE w1
        w3 == IF rr[1] /\ rr[2] THEN ioctl(w2, "KDSKBMODE", kb_mode, rr[3]) ELSE w2
    IN  IF rr[1] /\ rr[2] /\ rr[3]
        THEN ioctl(w3, "VT_SETMODE", "VT_AUTO", rr[4]) ELSE w3

weston_logind_restore(w, rr) ==
    LET w1 == ioctl(w, "KDSETMODE", "KD_TEXT", rr[1])
        w2 == ioctl(w1, "KDSKBMUTE", "0", rr[2])
        w3 == ioctl(w2, "KDSKBMODE", kb_mode, rr[3])
    IN  ioctl(w3, "VT_SETMODE", "VT_AUTO", rr[4])

\* Mutant: the two acknowledgments are swapped.
signal_event_swapped(w, rd, ok) ==
    IF rd = "fail" THEN w
    ELSE IF rd = "SIGRTMIN" THEN ioctl(w, "VT_RELDISP", "VT_ACKACQ", ok)
    ELSE IF rd = "SIGRTMIN+1" THEN ioctl(w, "VT_RELDISP", "1", ok)
    ELSE w

\* rd is what read() on the signalfd gives: "fail" (an error or a short
\* read) or the signal number read.
signal_event(w, rd, ok) ==
    IF rd = "fail" THEN w
    ELSE IF rd = "SIGRTMIN" THEN ioctl(w, "VT_RELDISP", "1", ok)
    ELSE IF rd = "SIGRTMIN+1" THEN ioctl(w, "VT_RELDISP", "VT_ACKACQ", ok)
    ELSE w

\* Mutant: the VT resources are closed without restoring the VT.
weston_logind_destroy_vt_norestore(w, rr) ==
    LET w2 == Do([w EXCEPT !.vt.sfd_source = FALSE],
                 [op |-> "wl_event_source_remove"])
        w3 == Do([w2 EXCEPT !.vt.sfd = FALSE], [op |-> "close", fd |-> "sfd"])
    IN  Do([w3 EXCEPT !.vt.open = FALSE], [op |-> "close", fd |-> "vt"])

weston_logind_destroy_vt(w, rr) ==
    LET w1 == weston_logind_restore(w, rr)
        w2 == Do([w1 EXCEPT !.vt.sfd_source = FALSE],
                 [op |-> "wl_event_source_remove"])
        w3 == Do([w2 EXCEPT !.vt.sfd = FALSE], [op |-> "close", fd |-> "sfd"])
    IN  Do([w3 EXCEPT !.vt.open = FALSE], [op |-> "close", fd |-> "vt"])

-----------------------------------------------------------------------------
(* The active flag *)

\* Mutant: the signal is emitted on every write of the flag.
weston_logind_set_active_always(w, active) ==
    LET w1 == [w EXCEPT !.session_active = active]
    IN  Do(w1, [op |-> "session_signal", active |-> w1.session_active])

weston_logind_set_active(w, active) ==
    IF w.session_active = active
    THEN w
    ELSE LET w1 == [w EXCEPT !.session_active = active]
         IN  Do(w1, [op |-> "session_signal", active |-> w1.session_active])

\* Mutant: the synchronization mode is not looked at.
parse_active_nosync(w, v) ==
    IF v.type # "variant" THEN w
    ELSE IF v.inner # "boolean" THEN w
    ELSE weston_logind_set_active(w, v.b)

\* Mutant: with synchronization the wake-up is forwarded, not the sleep.
parse_active_wake(w, v) ==
    IF v.type # "variant" THEN w
    ELSE IF v.inner # "boolean" THEN w
    ELSE IF ~sync_drm \/ v.b THEN weston_logind_set_active(w, v.b)
    ELSE w

\* Mutant: the wake-up is held back in every mode.
parse_active_held(w, v) ==
    IF v.type # "variant" THEN w
    ELSE IF v.inner # "boolean" THEN w
    ELSE IF ~v.b THEN weston_logind_set_active(w, v.b)
    ELSE w

parse_active(w, v) ==
    IF v.type # "variant" THEN w
    ELSE IF v.inner # "boolean" THEN w
    ELSE IF ~sync_drm \/ ~v.b THEN weston_logind_set_active(w, v.b)
    ELSE w

get_active_cb(w, pending, reply) ==
    LET w1 == [dbus_pending_call_unref(w, w.pending_active)
                 EXCEPT !.pending_active = 0]
    IN  IF reply.type = "method_return" /\ reply.hasargs
        THEN parse_active(w1, reply.val)
        ELSE w1

\* Mutant: the query that is replaced is cancelled first.
weston_logind_get_active_cancel_first(w, o) ==
    IF o \in {"nomem_new", "nomem_append", "nomem_send"} THEN w
    ELSE
    LET id == w.nextId
        w0 == IF w.pending_active # 0
              THEN dbus_pending_call_unref(
                       dbus_pending_call_cancel(w, w.pending_active),
                       w.pending_active)
              ELSE w
        w1 == Do([w0 EXCEPT !.nextId = @ + 1],
                 [op |-> "send_with_reply", id |-> id])
    IN  IF o = "nomem_notify"
        THEN dbus_pending_call_unref(dbus_pending_call_cancel(w1, id), id)
        ELSE
        LET w2 == Do([w1 EXCEPT !.calls = @ \cup {id}],
                     [op |-> "set_notify", id |-> id])
        IN  [w2 EXCEPT !.pending_active = id]

\* Mutant: the query that is replaced is not cancelled.
weston_logind_get_active_nocancel(w, o) ==
    IF o \in {"nomem_new", "nomem_append", "nomem_send"} THEN w
    ELSE
    LET id == w.nextId
        w1 == Do([w EXCEPT !.nextId = @ + 1],
                 [op |-> "send_with_reply", id |-> id])
    IN  IF o = "nomem_notify"
        THEN dbus_pending_call_unref(dbus_pending_call_cancel(w1, id), id)
        ELSE
        LET w2 == Do([w1 EXCEPT !.calls = @ \cup {id}],
                     [op |-> "set_notify", id |-> id])
        IN  [w2 EXCEPT !.pending_active = id]

weston_logind_get_active(w, o) ==
    IF o \in {"nomem_new", "nomem_append", "nomem_send"} THEN w
    ELSE
    LET id == w.nextId
        w1 == Do([w EXCEPT !.nextId = @ + 1],
                 [op |-> "send_with_reply", id |-> id])
    IN  IF o = "nomem_notify"
        THEN dbus_pending_call_unref(dbus_pending_call_cancel(w1, id), id)
        ELSE
        LET w2 == Do([w1 EXCEPT !.calls = @ \cup {id}],
                     [op |-> "set_notify", id |-> id])
            w3 == IF w2.pending_active # 0
                  THEN dbus_pending_call_unref(
                           dbus_pending_call_cancel(w2, w2.pending_active),
                           w2.pending_active)
                  ELSE w2
        IN  [w3 EXCEPT !.pending_active = id]

-----------------------------------------------------------------------------
(* Bus signals *)

exit(w) == Do([w EXCEPT !.phase = "exited"], [op |-> "exit"])

disconnected_dbus(w, rr) == exit(weston_logind_restore(w, rr))

\* Mutant: the name of the removed session is not compared with wl->sid.
session_removed_any(w, m, rr) ==
    IF ~m.ok THEN w
    ELSE exit(weston_logind_restore(
                  w, IF rr = <<>> THEN [i \in 1..4 |-> TRUE] ELSE rr))

session_removed(w, m, rr) ==
    IF ~m.ok THEN w
    ELSE IF m.name = sid THEN exit(weston_logind_restore(w, rr))
    ELSE w

\* The loop over the changed-properties array: "error", "next" (Active is
\* not in it) or "active" with the value that follows the key.
RECURSIVE changed_loop(_)
changed_loop(sub) ==
    IF sub = <<>> THEN [res |-> "next"]
    ELSE LET entry == Head(sub)
         IN  IF entry.ktype # "string" THEN [res |-> "error"]
             ELSE IF ~entry.hasval THEN [res |-> "error"]
             ELSE IF entry.name = "Active"
                  THEN [res |-> "active", val |-> entry.val]
             ELSE changed_loop(Tail(sub))

\* The loop over the invalidated-properties array: whether Active is in it.
RECURSIVE invalidated_loop(_)
invalidated_loop(sub) ==
    IF sub = <<>> THEN FALSE
    ELSE IF Head(sub) = "Active" THEN TRUE
    ELSE invalidated_loop(Tail(sub))

\* Mutant: the value is fetched again although the signal carries it.
property_changed_requery(w, m, o) ==
    IF m.a0 # "string" THEN w
    ELSE IF m.a1 # "array" THEN w
    ELSE LET r == changed_loop(m.changed_props)
         IN  IF r.res = "error" THEN w
             ELSE IF r.res = "active"
                  THEN weston_logind_get_active(parse_active(w, r.val), o)
             ELSE IF m.a2 # "array" THEN w
             ELSE IF invalidated_loop(m.invalidated)
                  THEN weston_logind_get_active(w, o)
             ELSE w

property_changed(w, m, o) ==
    IF m.a0 # "string" THEN w
    ELSE IF m.a1 # "array" THEN w
    ELSE LET r == changed_loop(m.changed_props)
         IN  IF r.res = "error" THEN w
             ELSE IF r.res = "active" THEN parse_active(w, r.val)
             ELSE IF m.a2 # "array" THEN w
             ELSE IF invalidated_loop(m.invalidated)
                  THEN weston_logind_get_active(w, o)
             ELSE w

\* Mutant: only the DRM device is acknowledged.
device_paused_drm_only(w, m, o) ==
    IF ~m.ok THEN w
    ELSE LET w1 == IF m.type = "pause" /\ m.major = DRM_MAJOR
                   THEN weston_logind_pause_device_complete(w, m.major, m.minor, o)
                   ELSE w
         IN  IF sync_drm /\ m.major = DRM_MAJOR
             THEN weston_logind_set_active(w1, FALSE)
             ELSE w1

\* Mutant: every kind of pause is acknowledged.
device_paused_ack_all(w, m, o) ==
    IF ~m.ok THEN w
    ELSE LET w1 == weston_logind_pause_device_complete(w, m.major, m.minor, "ok")
         IN  IF sync_drm /\ m.major = DRM_MAJOR
             THEN weston_logind_set_active(w1, FALSE)
             ELSE w1

device_paused(w, m, o) ==
    IF ~m.ok THEN w
    ELSE LET w1 == IF m.type = "pause"
                   THEN weston_logind_pause_device_complete(w, m.major, m.minor, o)
                   ELSE w
         IN  IF sync_drm /\ m.major = DRM_MAJOR
             THEN weston_logind_set_active(w1, FALSE)
             ELSE w1

\* Mutant: the DRM device wakes the compositor in either mode.
device_resumed_unsynced(w, m) ==
    IF ~m.ok THEN w
    ELSE IF m.major = DRM_MAJOR
         THEN weston_logind_set_active(w, TRUE)
    ELSE w

device_resumed(w, m) ==
    IF ~m.ok THEN w
    ELSE IF sync_drm /\ m.major = DRM_MAJOR
         THEN weston_logind_set_active(w, TRUE)
    ELSE w

\* in: the outcomes of the calls the handler of m makes (o: building a
\* message, rr: the ioctls of the restore).
filter_dbus(w, m, in) ==
    IF m.sig = "Disconnected" THEN disconnected_dbus(w, in.rr)
    ELSE IF m.sig = "SessionRemoved" THEN session_removed(w, m, in.rr)
    ELSE IF m.sig = "PropertiesChanged" THEN property_changed(w, m, in.o)
    ELSE IF m.sig = "PauseDevice" THEN device_paused(w, m, in.o)
    ELSE IF m.sig = "ResumeDevice" THEN device_resumed(w, m)
    ELSE w

-----------------------------------------------------------------------------
(* Opening a device *)

\* The flags of an open file description this model tells apart.
FdFlags == {{"O_RDWR"} \cup s : s \in SUBSET {"O_NONBLOCK", "O_APPEND"}}

\* What weston_logind_open meets: the result of stat ("fail", "notchr" or
\* "chr" with the device numbers), the result of the TakeDevice call (no
\* message, no arguments, no reply, a reply of another shape, or a
\* descriptor fd whose status flags are fl), the results of the two fcntl
\* calls and the outcome of building the ReleaseDevice message.
OpenInput(st, major, minor, flags, take, fl, getfl, setfl, o) ==
    [st |-> st, major |-> major, minor |-> minor, flags |-> flags,
     take |-> take, fd |-> 7, fl |-> fl, getfl |-> getfl, setfl |-> setfl,
     o |-> o]

OpenInputs ==
    { OpenInput(st, 0, 0, fg, "unused", {}, TRUE, TRUE, "unused") :
        st \in {"fail", "notchr"}, fg \in FdFlags }
    \cup { OpenInput("chr", ma, mi, fg, t, {}, TRUE, TRUE, "unused") :
        ma \in Majors, mi \in Minors, fg \in FdFlags,
        t \in {"nomem_new", "nomem_append", "noreply", "badargs"} }
    \cup { OpenInput("chr", ma, mi, fg, "ok", fl, TRUE, sf, IF sf THEN "unused" ELSE o) :
        ma \in Majors, mi \in Minors, fg \in FdFlags, fl \in FdFlags,
        sf \in BOOLEAN, o \in SendOutcomes }
    \cup { OpenInput("chr", ma, mi, fg, "ok", fl, FALSE, TRUE, o) :
        ma \in Majors, mi \in Minors, fg \in FdFlags, fl \in FdFlags,
        o \in SendOutcomes }

Return(w, val) == Do(w, [op |-> "return", val |-> val])

\* The result r of weston_logind_take_device: the descriptor ("fd") or a
\* negative errno; the call reaches the service unless the message could
\* not be built.
weston_logind_take_device(w, in) ==
    IF in.take = "nomem_new" \/ in.take = "nomem_append"
    THEN [w |-> w, r |-> "-ENOMEM"]
    ELSE LET w1 == Do(w, [op |-> "call", member |-> "TakeDevice",
                          major |-> in.major, minor |-> in.minor,
                          reply |-> in.take])
         IN  IF in.take = "noreply" \/ in.take = "badargs"
             THEN [w |-> w1, r |-> "-ENODEV"]
             ELSE [w |-> w1, r |-> "fd"]

\* Mutant: the error path closes the descriptor and keeps the lease.
weston_logind_open_leak(w, in) ==
    IF in.st = "fail" THEN Return(w, "-1")
    ELSE IF in.st = "notchr" THEN Return(w, "-1")
    ELSE
    LET t == weston_logind_take_device(w, in)
        err_close(x) == Return(Do(x, [op |-> "close", fd |-> "fd"]), "-1")
    IN  IF t.r # "fd" THEN Return(t.w, t.r)
        ELSE
        LET w1 == Do(t.w, [op |-> "fcntl", cmd |-> "F_GETFL", fl |-> in.fl,
                           ok |-> in.getfl])
        IN  IF ~in.getfl THEN err_close(w1)
            ELSE
            LET fl == IF "O_NONBLOCK" \in in.flags
                      THEN in.fl \cup {"O_NONBLOCK"}
                      ELSE in.fl
                w2 == Do(w1, [op |-> "fcntl", cmd |-> "F_SETFL", fl |-> fl,
                              ok |-> in.setfl])
            IN  IF ~in.setfl THEN err_close(w2)
                ELSE Return(w2, "fd")

weston_logind_open(w, in) ==
    IF in.st = "fail" THEN Return(w, "-1")
    ELSE IF in.st = "notchr" THEN Return(w, "-1")
    ELSE
    LET t == weston_logind_take_device(w, in)
        err_close(x) ==
            Return(weston_logind_release_device(
                       Do(x, [op |-> "close", fd |-> "fd"]),
                       in.major, in.minor, in.o), "-1")
    IN  IF t.r # "fd" THEN Return(t.w, t.r)
        ELSE
        LET w1 == Do(t.w, [op |-> "fcntl", cmd |-> "F_GETFL", fl |-> in.fl,
                           ok |-> in.getfl])
        IN  IF ~in.getfl THEN err_close(w1)
            ELSE
            LET fl == IF "O_NONBLOCK" \in in.flags
                      THEN in.fl \cup {"O_NONBLOCK"}
                      ELSE in.fl
                w2 == Do(w1, [op |-> "fcntl", cmd |-> "F_SETFL", fl |-> fl,
                              ok |-> in.setfl])
            IN  IF ~in.setfl THEN err_close(w2)
                ELSE Return(w2, "fd")

-----------------------------------------------------------------------------
(* Session setup *)

Seats == {"seat0", "seat1"}
Ttys == {0, 1, 2}

\* The results of the three ioctls of the unwinding labels err_mode and
\* err_kbmode of weston_logind_setup_vt.
UnwindResults == [1..3 -> BOOLEAN]

Unwound == [i \in 1..3 |-> TRUE]

\* The results of the calls of weston_logind_setup_vt when its first failing
\* step is stage ("none": every step succeeds): open() of the VT, the fstat
\* test, KDGKBMODE (readok), KDSKBMUTE (muteok) and KDSKBMODE K_OFF (offok),
\* KDSETMODE, the test of the real-time signal numbers, signalfd(),
\* wl_event_loop_add_fd() and VT_SETMODE; un: the unwinding ioctls.
VtInput(stage, readok, muteok, un) ==
    [stage |-> stage, open |-> stage # "open", isvt |-> stage # "fstat",
     readok |-> readok, muteok |-> muteok, offok |-> stage # "kbmute",
     gfxok |-> stage # "graphics", rtok |-> stage # "rt",
     sfdok |-> stage # "signalfd", srcok |-> stage # "source",
     modeok |-> stage # "setmode", un |-> un]

VtInputs ==
    { VtInput(s, TRUE, TRUE, Unwound) : s \in {"open", "fstat"} }
    \cup { VtInput("kbmute", r, FALSE, Unwound) : r \in BOOLEAN }
    \cup { VtInput("graphics", r, m, un) :
             r \in BOOLEAN, m \in BOOLEAN,
             un \in {u \in UnwindResults : u[1]} }
    \cup { VtInput(s, r, m, Unwound) :
             s \in {"rt", "none"}, r \in BOOLEAN, m \in BOOLEAN }
    \cup { VtInput(s, r, m, un) :
             s \in {"signalfd", "source", "setmode"},
             r \in BOOLEAN, m \in BOOLEAN, un \in UnwindResults }

\* The result of weston_logind_setup_vt: the state it leaves, its return
\* value r and wl->kb_mode.  The keyboard mode the kernel holds is
\* w.vt.kbmode.
weston_logind_setup_vt(w, v) ==
    LET kb == IF ~v.readok THEN "K_UNICODE"
              ELSE IF w.vt.kbmode = "K_OFF" THEN "K_UNICODE"
              ELSE w.vt.kbmode
        err_close(x, r, k) ==
            [w |-> Do([x EXCEPT !.vt.open = FALSE], [op |-> "close", fd |-> "vt"]),
             r |-> r, kb_mode |-> k]
        err_kbmode(x, r) ==
            err_close(ioctl(ioctl(x, "KDSKBMUTE", "0", v.un[2]),
                            "KDSKBMODE", kb, v.un[3]), r, kb)
        err_mode(x, r) == err_kbmode(ioctl(x, "KDSETMODE", "KD_TEXT", v.un[1]), r)
        err_sfd(x, r) ==
            err_mode(Do([x EXCEPT !.vt.sfd = FALSE], [op |-> "close", fd |-> "sfd"]), r)
        err_sfd_source(x, r) ==
            err_sfd(Do([x EXCEPT !.vt.sfd_source = FALSE],
                       [op |-> "wl_event_source_remove"]), r)
        w0 == Do([w EXCEPT !.vt.open = v.open],
                 [op |-> "open", fd |-> "vt", ok |-> v.open])
        w1 == ioctl(w0, "KDGKBMODE", "&kb_mode", v.readok)
        w2 == ioctl(w1, "KDSKBMUTE", "1", v.muteok)
        w3 == IF v.muteok THEN w2 ELSE ioctl(w2, "KDSKBMODE", "K_OFF", v.offok)
        w4 == ioctl(w3, "KDSETMODE", "KD_GRAPHICS", v.gfxok)
        w5 == Do(w4, [op |-> "sigprocmask"])
        w6 == Do([w5 EXCEPT !.vt.sfd = v.sfdok], [op |-> "signalfd", ok |-> v.sfdok])
        w7 == Do([w6 EXCEPT !.vt.sfd_source = v.srcok],
                 [op |-> "wl_event_loop_add_fd", ok |-> v.srcok])
        w8 == ioctl(w7, "VT_SETMODE", "VT_PROCESS", v.modeok)
    IN  IF ~v.open THEN [w |-> w0, r |-> "-errno", kb_mode |-> "K_RAW"]
        ELSE IF ~v.isvt THEN err_close(w0, "-EINVAL", "K_RAW")
        ELSE IF ~v.muteok /\ ~v.offok THEN err_close(w3, "-errno", kb)
        ELSE IF ~v.gfxok THEN err_kbmode(w4, "-errno")
        ELSE IF ~v.rtok THEN [w |-> w4, r |-> "-EINVAL", kb_mode |-> kb]
        ELSE IF ~v.sfdok THEN err_mode(w6, "-errno")
        ELSE IF ~v.srcok THEN err_sfd(w7, "-errno")
        ELSE IF ~v.modeok THEN err_sfd_source(w8, "-errno")
        ELSE [w |-> w8, r |-> "0", kb_mode |-> kb]

\* The four signals weston_logind_setup_dbus subscribes to, in its order.
Matches == <<"SessionRemoved", "PauseDevice", "ResumeDevice", "PropertiesChanged">>

DbusStages == {"nomem_spath", "nomem_filter", "match1", "match2", "match3",
               "match4", "ok"}

\* The number of subscriptions setup_dbus attempts when its first failing
\* step is d.
Attempted(d) ==
    IF d = "match1" THEN 1 ELSE IF d = "match2" THEN 2
    ELSE IF d = "match3" THEN 3 ELSE 4

free(w, what) == Do(w, [op |-> "free", what |-> what])

weston_logind_setup_dbus(w, d) ==
    IF d = "nomem_spath" THEN [w |-> w, r |-> "-ENOMEM"]
    ELSE
    LET w1 == Do(w, [op |-> "add_filter", ok |-> d # "nomem_filter"])
        n == Attempted(d)
        w2 == [w1 EXCEPT !.ops = @ \o
                  [i \in 1..n |-> [op |-> "add_match", member |-> Matches[i],
                                   ok |-> ~(i = n /\ d # "ok")]]]
    IN  IF d = "nomem_filter" THEN [w |-> free(w1, "spath"), r |-> "-ENOMEM"]
        ELSE IF d # "ok" THEN [w |-> free(w2, "spath"), r |-> "-errno"]
        ELSE [w |-> w2, r |-> "0"]

weston_logind_destroy_dbus(w) == free(w, "spath")

\* tc: the TakeControl message is not allocated, its argument is not
\* appended, the blocking call gets no reply, or the service replies.
weston_logind_take_control(w, tc) ==
    IF tc = "nomem_new" \/ tc = "nomem_append"
    THEN [w |-> w, r |-> "-ENOMEM"]
    ELSE LET w1 == Do(w, [op |-> "call", member |-> "TakeControl",
                          major |-> 0, minor |-> 0, reply |-> tc])
         IN  IF tc = "noreply" THEN [w |-> w1, r |-> "-EIO"]
             ELSE [w |-> w1, r |-> "0"]

\* What sd_pid_get_session, sd_session_get_seat and weston_sd_session_get_vt
\* give for the arguments seat_id, tty and sync_drm of weston_logind_connect:
\* "fail" and -1 stand for a negative result, and for a call that is not
\* reached.
IdentityInputs ==
    { i \in [seat_id : Seats, tty : Ttys, sync : BOOLEAN,
             alloc : {"ok", "nomem_wl", "nomem_seat"},
             session : {"fail", "c1"}, seat : {"fail"} \cup Seats,
             vtnr : {-1, 1, 2}] :
        /\ (i.alloc # "ok" => i.session = "fail")
        /\ (i.session = "fail" => i.seat = "fail")
        /\ (i.seat # i.seat_id => i.vtnr = -1) }

IdentityOk(i) ==
    /\ i.alloc = "ok"
    /\ i.session # "fail"
    /\ i.seat = i.seat_id
    /\ i.vtnr >= 0
    /\ ~(i.tty > 0 /\ i.vtnr # i.tty)

\* The results of the later steps of weston_logind_connect: weston_dbus_open
\* (bus), setup_dbus (dbus), take_control (tc), setup_vt (v) and the
\* ReleaseControl message of the unwinding (rc).
LateInput(bus, dbus, tc, v, rc) ==
    [bus |-> bus, dbus |-> dbus, tc |-> tc, v |-> v, rc |-> rc]

NoVt == VtInput("none", TRUE, TRUE, Unwound)

LateInputs ==
    { LateInput(FALSE, "ok", "ok", NoVt, "ok") }
    \cup { LateInput(TRUE, d, "ok", NoVt, "ok") : d \in DbusStages \ {"ok"} }
    \cup { LateInput(TRUE, "ok", tc, NoVt, "ok") :
             tc \in {"nomem_new", "nomem_append", "noreply"} }
    \cup { LateInput(TRUE, "ok", "ok", v, "ok") : v \in VtInputs }
    \cup { LateInput(TRUE, "ok", "ok", v, "nomem_new") :
             v \in {x \in VtInputs : x.stage # "none"} }

ConnectInputs ==
    { i @@ LateInput(FALSE, "ok", "ok", NoVt, "ok") :
        i \in {x \in IdentityInputs : ~IdentityOk(x)} }
    \cup { i @@ l : i \in {x \in IdentityInputs : IdentityOk(x)}, l \in LateInputs }

\* Mutant: the requested VT is not compared with the VT of the session.
identity_checks_any_vt(in) ==
    IF in.alloc # "ok" THEN "-ENOMEM"
    ELSE IF in.session = "fail" THEN "-errno"
    ELSE IF in.seat = "fail" THEN "-errno"
    ELSE IF in.seat # in.seat_id THEN "-EINVAL"
    ELSE IF in.vtnr < 0 THEN "-errno"
    ELSE "0"

\* The steps of weston_logind_connect before it opens the bus connection:
\* r when one of them fails.
identity_checks(in) ==
    IF in.alloc # "ok" THEN "-ENOMEM"
    ELSE IF in.session = "fail" THEN "-errno"
    ELSE IF in.seat = "fail" THEN "-errno"
    ELSE IF in.seat # in.seat_id THEN "-EINVAL"
    ELSE IF in.vtnr < 0 THEN "-errno"
    ELSE IF in.tty > 0 /\ in.vtnr # in.tty THEN "-EINVAL"
    ELSE "0"

\* The result of weston_logind_connect: the state it leaves and the fields
\* it has given the session object; the call returns 0 and hands out the
\* object (phase "running"), or returns -1 after freeing it (phase "failed").
weston_logind_connect(w, in) ==
    LET obj(x, s, k) ==
            [w |-> x, sync_drm |-> in.sync, sid |-> s, kb_mode |-> k]
        err_out(x, s, k) ==
            obj(Return([x EXCEPT !.phase = "failed"], "-1"), s, k)
        err_dbus(x, k) ==
            err_out(Do(x, [op |-> "weston_dbus_close"]), in.session, k)
        err_dbus_cleanup(x, k) == err_dbus(weston_logind_destroy_dbus(x), k)
        err_control(x, k) ==
            err_dbus_cleanup(weston_logind_release_control(x, in.rc), k)
        w1 == Do(w, [op |-> "weston_dbus_open", ok |-> in.bus])
        d == weston_logind_setup_dbus(w1, in.dbus)
        t == weston_logind_take_control(d.w, in.tc)
        s == weston_logind_setup_vt(t.w, in.v)
    IN  IF identity_checks(in) # "0"
        THEN err_out(w, IF in.alloc = "ok" /\ in.session # "fail"
                        THEN in.session ELSE "none", "K_RAW")
        ELSE IF ~in.bus THEN err_out(w1, in.session, "K_RAW")
        ELSE IF d.r # "0" THEN err_dbus(d.w, "K_RAW")
        ELSE IF t.r # "0" THEN err_dbus_cleanup(t.w, "K_RAW")
        ELSE IF s.r # "0" THEN err_control(s.w, s.kb_mode)
        ELSE obj(Return([s.w EXCEPT !.phase = "running"], "0"), in.session,
                 s.kb_mode)

-----------------------------------------------------------------------------
(* Teardown *)

\* Mutant: the control is given back while the VT is still set up.
weston_logind_destroy_early_release(w, rr, o) ==
    LET w1 == IF w.pending_active # 0
              THEN dbus_pending_call_unref(
                       dbus_pending_call_cancel(w, w.pending_active),
                       w.pending_active)
              ELSE w
        w2 == weston_logind_release_control(w1, o)
        w3 == weston_logind_destroy_vt(w2, rr)
        w4 == Do(weston_logind_destroy_dbus(w3), [op |-> "weston_dbus_close"])
    IN  [w4 EXCEPT !.phase = "destroyed"]

weston_logind_destroy(w, rr, o) ==
    LET w1 == IF w.pending_active # 0
              THEN dbus_pending_call_unref(
                       dbus_pending_call_cancel(w, w.pending_active),
                       w.pending_active)
              ELSE w
        w2 == weston_logind_destroy_vt(w1, rr)
        w3 == weston_logind_release_control(w2, o)
        w4 == Do(weston_logind_destroy_dbus(w3), [op |-> "weston_dbus_close"])
    IN  [w4 EXCEPT !.phase = "destroyed"]

-----------------------------------------------------------------------------
(* The state machine *)

Snapshot ==
    [session_active |-> session_active, pending_active |-> pending_active,
     calls |-> calls, cancelled |-> cancelled, nextId |-> nextId,
     phase |-> phase, vt |-> vt]

\* The session signals among the side effects seq.
SignalCount(seq) ==
    Cardinality({i \in 1..Len(seq) : seq[i].op = "session_signal"})

\* The handler of event ev ran from the current state and left w.
CommitWorld(w, ev) ==
    /\ session_active' = w.session_active
    /\ pending_active' = w.pending_active
    /\ calls' = w.calls
    /\ cancelled' = w.cancelled
    /\ nextId' = w.nextId
    /\ phase' = w.phase
    /\ vt' = w.vt
    /\ ops' = w.ops
    /\ last' = ev
    /\ pre' = Snapshot
    /\ nevents' = nevents + 1
    /\ emitted' = emitted + SignalCount(w.ops)
    /\ changed' = changed + (IF w.session_active # session_active THEN 1 ELSE 0)

\* The same for a handler of a connected session, which leaves the fields
\* that weston_logind_connect sets alone.
Commit(w, ev) == CommitWorld(w, ev) /\ UNCHANGED <<sync_drm, sid, kb_mode>>

\* The session is connected and the event loop is about to dispatch an
\* event; the model stops after MaxEvents events.
Running == phase = "running" /\ last.kind = "idle" /\ nevents < MaxEvents

NoIn == [o |-> "unused", rr |-> <<>>]

\* The state a successful weston_logind_connect leaves: no query is
\* pending; setup_vt has saved the keyboard mode k0 it read (K_UNICODE when
\* the read failed or gave K_OFF), muted the keyboard (or, when that failed,
\* set K_OFF), set graphics mode and taken over VT switching.
Init ==
    /\ sync_drm \in BOOLEAN
    /\ sid = "c1"
    /\ \E k0 \in KernelKbModes, readok \in BOOLEAN, muteok \in BOOLEAN :
          /\ kb_mode = (IF ~readok \/ k0 = "K_OFF" THEN "K_UNICODE" ELSE k0)
          /\ vt = [kd |-> "KD_GRAPHICS",
                   mute |-> (IF muteok THEN "1" ELSE "0"),
                   kbmode |-> (IF muteok THEN k0 ELSE "K_OFF"),
                   mode |-> "VT_PROCESS", open |-> TRUE, sfd |-> TRUE,
                   sfd_source |-> TRUE]
    /\ session_active \in BOOLEAN
    /\ pending_active = 0
    /\ calls = {}
    /\ cancelled = {}
    /\ nextId = 1
    /\ phase = "running"
    /\ ops = <<>>
    /\ last = [kind |-> "idle"]
    /\ pre = Snapshot
    /\ nevents = 0
    /\ emitted = 0
    /\ changed = 0

Dispatch(m, in) ==
    Commit(filter_dbus(Cur, m, in), [kind |-> "filter_dbus", m |-> m, in |-> in])

Disconnected ==
    /\ Running
    /\ \E m \in DisconnectedMsgs, rr \in RestoreResults :
        Dispatch(m, [o |-> "unused", rr |-> rr])

SessionRemoved ==
    /\ Running
    /\ \E m \in SessionRemovedMsgs :
        \E rr \in (IF m.ok /\ m.name = sid THEN RestoreResults ELSE {<<>>}) :
            Dispatch(m, [o |-> "unused", rr |-> rr])

\* Whether the handler of PropertiesChanged message m gets to issue a query.
Queries(m) ==
    /\ m.a0 = "string" /\ m.a1 = "array" /\ m.a2 = "array"
    /\ changed_loop(m.changed_props).res = "next"
    /\ invalidated_loop(m.invalidated)

PropertyChanged ==
    /\ Running
    /\ \E m \in PropertiesChangedMsgs :
        \E o \in (IF Queries(m) THEN QueryOutcomes ELSE {"unused"}) :
            Dispatch(m, [o |-> o, rr |-> <<>>])

DevicePaused ==
    /\ Running
    /\ \E m \in PauseDeviceMsgs :
        \E o \in (IF m.ok /\ m.type = "pause" THEN SendOutcomes ELSE {"unused"}) :
            Dispatch(m, [o |-> o, rr |-> <<>>])

DeviceResumed ==
    /\ Running
    /\ \E m \in ResumeDeviceMsgs : Dispatch(m, NoIn)

OtherMessage ==
    /\ Running
    /\ \E m \in OtherMsgs : Dispatch(m, NoIn)

\* The connection completes pending call id with a reply and runs its notify
\* function.
ActiveReply ==
    /\ Running
    /\ \E id \in calls, reply \in Replies :
        Commit(get_active_cb([Cur EXCEPT !.calls = @ \ {id}], id, reply),
               [kind |-> "get_active_cb", id |-> id, reply |-> reply])

SignalEvent ==
    /\ Running
    /\ \E rd \in {"fail", "SIGRTMIN", "SIGRTMIN+1"} :
        \E ok \in (IF rd = "fail" THEN {TRUE} ELSE BOOLEAN) :
            Commit(signal_event(Cur, rd, ok),
                   [kind |-> "signal_event", rd |-> rd, ok |-> ok])

Open ==
    /\ Running
    /\ \E in \in OpenInputs :
        Commit(weston_logind_open(Cur, in), [kind |-> "open", in |-> in])

Destroy ==
    /\ Running
    /\ \E rr \in RestoreResults, o \in {"nomem_new", "ok"} :
        Commit(weston_logind_destroy(Cur, rr, o),
               [kind |-> "destroy", rr |-> rr, o |-> o])

\* The handler returns to the event loop, which waits for the next event.
EventLoop ==
    /\ phase = "running"
    /\ last.kind # "idle"
    /\ last' = [kind |-> "idle"]
    /\ ops' = <<>>
    /\ pre' = Snapshot
    /\ UNCHANGED <<sync_drm, sid, kb_mode, session_active, pending_active,
                   calls, cancelled, nextId, phase, vt, nevents, emitted,
                   changed>>

Next ==
    \/ Disconnected
    \/ SessionRemoved
    \/ PropertyChanged
    \/ DevicePaused
    \/ DeviceResumed
    \/ OtherMessage
    \/ ActiveReply
    \/ SignalEvent
    \/ Open
    \/ Destroy
    \/ EventLoop

Spec == Init /\ [][Next]_vars

-----------------------------------------------------------------------------
(* The life of a session, from weston_logind_connect on *)

\* Before weston_logind_connect: the console is in text mode with the
\* keyboard mode k0, VT switching is automatic, no descriptor is open; the
\* fields of the session object are those zalloc gives (K_RAW is 0).
LifeInit ==
    /\ sync_drm = FALSE
    /\ sid = "none"
    /\ kb_mode = "K_RAW"
    /\ \E k0 \in KernelKbModes :
          vt = [kd |-> "KD_TEXT", mute |-> "0", kbmode |-> k0,
                mode |-> "VT_AUTO", open |-> FALSE, sfd |-> FALSE,
                sfd_source |-> FALSE]
    /\ session_active = FALSE
    /\ pending_active = 0
    /\ calls = {}
    /\ cancelled = {}
    /\ nextId = 1
    /\ phase = "unconnected"
    /\ ops = <<>>
    /\ last = [kind |-> "idle"]
    /\ pre = Snapshot
    /\ nevents = 0
    /\ emitted = 0
    /\ changed = 0

Connect ==
    /\ phase = "unconnected"
    /\ \E in \in ConnectInputs :
        LET c == weston_logind_connect(Cur, in)
        IN  /\ CommitWorld(c.w, [kind |-> "connect", in |-> in])
            /\ sync_drm' = c.sync_drm
            /\ sid' = c.sid
            /\ kb_mode' = c.kb_mode

\* The exported weston_logind_restore.
Restore ==
    /\ Running
    /\ \E rr \in RestoreResults :
        Commit(weston_logind_restore(Cur, rr), [kind |-> "restore", rr |-> rr])

LifeNext ==
    \/ Connect
    \/ Restore
    \/ Disconnected
    \/ SessionRemoved
    \/ SignalEvent
    \/ Destroy
    \/ EventLoop

LifeSpec == LifeInit /\ [][LifeNext]_vars

-----------------------------------------------------------------------------
(* What the last handler was given and what it did *)

Handled(sig) == last.kind = "filter_dbus" /\ last.m.sig = sig

\* PropertiesChanged message m is well formed up to an entry of its changed
\* map that gives Active the boolean b.
CarriesActive(m, b) ==
    /\ m.a0 = "string"
    /\ m.a1 = "array"
    /\ \E i \in 1..Len(m.changed_props) :
          /\ m.changed_props[i] =
                 DictEntry("string", "Active", TRUE, Value("variant", "boolean", b))
          /\ \A j \in 1..(i - 1) :
                /\ m.changed_props[j].ktype = "string"
                /\ m.changed_props[j].hasval
                /\ m.changed_props[j].name # "Active"

\* The last handler was given Active=b by a PropertiesChanged signal.
SignalGave(b) == Handled("PropertiesChanged") /\ CarriesActive(last.m, b)

\* The last handler was given Active=b by the reply to the Active query.
ReplyGave(b) ==
    /\ last.kind = "get_active_cb"
    /\ last.reply.type = "method_return"
    /\ last.reply.hasargs
    /\ last.reply.val = Value("variant", "boolean", b)

\* The last handler was given a PauseDevice or ResumeDevice notification of
\* the DRM major.
DrmPauseOrResume ==
    /\ last.kind = "filter_dbus"
    /\ last.m.sig \in {"PauseDevice", "ResumeDevice"}
    /\ last.m.ok
    /\ last.m.major = DRM_MAJOR

FlagChanged == last.kind # "idle" /\ session_active # pre.session_active

Signals == SignalCount(ops)

-----------------------------------------------------------------------------
(* C1 *)

\* C1 as stated: with sync_drm set, the active flag changes only in the
\* handler of a PauseDevice or ResumeDevice notification of the DRM major.
C1_OnlyDrmEvents == (sync_drm /\ FlagChanged) => DrmPauseOrResume

\* C1 as amended: with sync_drm set, the active flag changes only in the
\* handler of a PauseDevice or ResumeDevice notification of the DRM major, or
\* in the handler of a PropertiesChanged signal or of a query reply that
\* carries Active=false, which sets it to false; a signal or a reply that
\* carries Active=true never changes it.
C1_SyncChanges ==
    sync_drm =>
        /\ FlagChanged =>
              \/ DrmPauseOrResume
              \/ (SignalGave(FALSE) \/ ReplyGave(FALSE)) /\ ~session_active
        /\ (SignalGave(TRUE) \/ ReplyGave(TRUE)) => ~FlagChanged

C1_Witness ==
    sync_drm /\ SignalGave(FALSE) /\ pre.session_active /\ ~session_active

-----------------------------------------------------------------------------
(* C2 *)

\* C2: with sync_drm set, the active flag goes from false to true only in
\* the handler of a ResumeDevice notification of the DRM major; a
\* PropertiesChanged signal or a query reply carrying Active=true leaves the
\* flag as it was and emits no session signal.
C2_WakeOnlyOnResume ==
    sync_drm =>
        /\ (last.kind # "idle" /\ ~pre.session_active /\ session_active) =>
              (Handled("ResumeDevice") /\ last.m.ok /\ last.m.major = DRM_MAJOR)
        /\ (SignalGave(TRUE) \/ ReplyGave(TRUE)) =>
              (session_active = pre.session_active /\ Signals = 0)

C2_Witness ==
    sync_drm /\ SignalGave(TRUE) /\ ~pre.session_active /\ ~session_active

-----------------------------------------------------------------------------
(* C3 *)

\* C3: with sync_drm clear, after the handler of a PropertiesChanged signal
\* whose changed map carries Active=b, or of a method-return reply to the
\* pending query that carries b, the active flag is b, for both values of b
\* and whatever the flag was.
C3_FollowsSignals ==
    ~sync_drm =>
        \A b \in BOOLEAN : (SignalGave(b) \/ ReplyGave(b)) => session_active = b

C3_Witness ==
    ~sync_drm /\ ReplyGave(TRUE) /\ ~pre.session_active /\ session_active

-----------------------------------------------------------------------------
(* C4 *)

\* The positions in ops of the ReleaseDevice / PauseDeviceComplete calls
\* handed to the connection for device (major, minor), and of all of them.
SendsOf(member) ==
    {i \in 1..Len(ops) : ops[i].op = "send" /\ ops[i].member = member}

SendsFor(member, major, minor) ==
    {i \in SendsOf(member) : ops[i].major = major /\ ops[i].minor = minor}

Closes == {i \in 1..Len(ops) : ops[i].op = "close" /\ ops[i].fd = "fd"}

\* The last handler was weston_logind_open, its TakeDevice call returned a
\* descriptor and one of its two fcntl calls failed.
OpenFailedAfterTake ==
    /\ last.kind = "open"
    /\ last.in.st = "chr"
    /\ last.in.take = "ok"
    /\ (~last.in.getfl \/ ~last.in.setfl)

\* open() closed the descriptor once and then returned -1.
OpenClosedAndFailed ==
    /\ Cardinality(Closes) = 1
    /\ ops[Len(ops)] = [op |-> "return", val |-> "-1"]

\* C4 as stated: whenever TakeDevice returned a descriptor and a later fcntl
\* fails, open() closes the descriptor and issues a ReleaseDevice call for
\* the same (major, minor) before it returns failure.
C4_AlwaysReleased ==
    OpenFailedAfterTake =>
        /\ OpenClosedAndFailed
        /\ Cardinality(SendsFor("ReleaseDevice", last.in.major, last.in.minor)) = 1

\* C4 as amended: whenever TakeDevice returned a descriptor and a later fcntl
\* fails, open() closes the descriptor and then calls
\* weston_logind_release_device for the same (major, minor) before it
\* returns failure; the ReleaseDevice call is sent exactly once, after the
\* close, unless its message cannot be allocated or its arguments cannot be
\* appended, and then none is sent and the lease stays held.
C4_ReleasedIfBuilt ==
    OpenFailedAfterTake =>
        /\ OpenClosedAndFailed
        /\ SendsOf("ReleaseDevice") =
               SendsFor("ReleaseDevice", last.in.major, last.in.minor)
        /\ Cardinality(SendsOf("ReleaseDevice")) =
               (IF last.in.o = "ok" THEN 1 ELSE 0)
        /\ \A i \in SendsOf("ReleaseDevice") : \A c \in Closes :
               c < i /\ i < Len(ops)

C4_Witness ==
    /\ OpenFailedAfterTake
    /\ last.in.o = "ok"
    /\ last.in.getfl /\ ~last.in.setfl
    /\ Cardinality(SendsFor("ReleaseDevice", last.in.major, last.in.minor)) = 1

-----------------------------------------------------------------------------
(* C5 *)

\* The last handler was given a well-formed PauseDevice notification.
PauseHandled == Handled("PauseDevice") /\ last.m.ok

\* C5 as stated: the handler of a well-formed PauseDevice notification of
\* kind "pause" sends exactly one PauseDeviceComplete call with the same
\* (major, minor), whatever the major and the synchronization mode.
C5_AlwaysAcked ==
    (PauseHandled /\ last.m.type = "pause") =>
        /\ Cardinality(SendsOf("PauseDeviceComplete")) = 1
        /\ SendsOf("PauseDeviceComplete") =
               SendsFor("PauseDeviceComplete", last.m.major, last.m.minor)

\* C5 as amended: the handler of a well-formed PauseDevice notification of
\* kind "pause" sends exactly one PauseDeviceComplete call with the same
\* (major, minor), whatever the major and the synchronization mode, unless
\* the message cannot be allocated or its arguments cannot be appended, and
\* then it sends none.
C5_AckedIfBuilt ==
    (PauseHandled /\ last.m.type = "pause") =>
        /\ Cardinality(SendsOf("PauseDeviceComplete")) =
               (IF last.in.o = "ok" THEN 1 ELSE 0)
        /\ SendsOf("PauseDeviceComplete") =
               SendsFor("PauseDeviceComplete", last.m.major, last.m.minor)

C5_Witness ==
    /\ PauseHandled /\ last.m.type = "pause"
    /\ last.m.major # DRM_MAJOR
    /\ ~sync_drm
    /\ last.in.o = "ok"
    /\ Cardinality(SendsFor("PauseDeviceComplete", last.m.major, last.m.minor)) = 1

-----------------------------------------------------------------------------
(* C6 *)

\* C6: the handler of a PauseDevice notification of a kind other than
\* "pause" sends no PauseDeviceComplete call; and with sync_drm set and the
\* DRM major, the active flag is false after the handler, for every kind.
C6_NoAckAndAsleep ==
    PauseHandled =>
        /\ last.m.type # "pause" => SendsOf("PauseDeviceComplete") = {}
        /\ (sync_drm /\ last.m.major = DRM_MAJOR) => ~session_active

C6_Witness ==
    /\ PauseHandled /\ last.m.type = "gone"
    /\ sync_drm /\ last.m.major = DRM_MAJOR
    /\ pre.session_active /\ ~session_active
    /\ SendsOf("PauseDeviceComplete") = {}

-----------------------------------------------------------------------------
(* C7 *)

HasOp(o) == \E i \in 1..Len(ops) : ops[i] = o

\* The last handler issued an Active query with get_active_cb as its notify
\* function.
QueryIssued == \E i \in 1..Len(ops) : ops[i].op = "set_notify"

\* C7: at most one Active query is outstanding, and it is the one
\* wl->pending_active names; a query that is issued cancels and releases the
\* one it replaces; a reply empties the pending slot; the reply of a
\* cancelled query never reaches get_active_cb.
C7_OneOutstanding ==
    /\ Cardinality(calls) <= 1
    /\ phase = "running" =>
          calls = (IF pending_active = 0 THEN {} ELSE {pending_active})
    /\ phase = "destroyed" => calls = {}
    /\ (QueryIssued /\ pre.pending_active # 0) =>
          /\ HasOp([op |-> "cancel", id |-> pre.pending_active])
          /\ HasOp([op |-> "unref", id |-> pre.pending_active])
          /\ pre.pending_active \in cancelled
          /\ pending_active # pre.pending_active
    /\ last.kind = "get_active_cb" =>
          /\ pending_active = 0
          /\ last.id = pre.pending_active
          /\ last.id \notin pre.cancelled

C7_Witness ==
    /\ last.kind = "get_active_cb"
    /\ pre.cancelled # {}
    /\ last.id \notin pre.cancelled
    /\ calls = {}

-----------------------------------------------------------------------------
(* C8 *)

\* C8: the session signal is emitted as often as the active flag changes
\* value: a handler that leaves the flag as it was emits nothing, and a
\* handler that changes it emits one signal, after the flag has its new
\* value.
C8_OneSignalPerChange ==
    /\ emitted = changed
    /\ last.kind # "idle" =>
          IF session_active = pre.session_active
          THEN Signals = 0
          ELSE /\ Signals = 1
               /\ HasOp([op |-> "session_signal", active |-> session_active])

\* The same value was applied twice and one signal was emitted.
C8_Witness ==
    /\ ~sync_drm
    /\ nevents = 2
    /\ SignalGave(session_active)
    /\ session_active = pre.session_active
    /\ emitted = 1
    /\ changed = 1

-----------------------------------------------------------------------------
(* C9 *)

Ioctls == {i \in 1..Len(ops) : ops[i].op = "ioctl"}

Acks(arg) == {i \in Ioctls : ops[i].req = "VT_RELDISP" /\ ops[i].arg = arg}

\* C9: a release signal read by signal_event results in exactly one
\* VT_RELDISP ioctl with argument 1, before any other ioctl on the VT; an
\* acquire signal results in exactly one VT_RELDISP ioctl with argument
\* VT_ACKACQ; and no VT_RELDISP ioctl is issued otherwise.
C9_SignalsAcked ==
    /\ (last.kind = "signal_event" /\ last.rd = "SIGRTMIN") =>
          /\ Cardinality(Acks("1")) = 1
          /\ Ioctls = {1}
          /\ 1 \in Acks("1")
    /\ (last.kind = "signal_event" /\ last.rd = "SIGRTMIN+1") =>
          /\ Cardinality(Acks("VT_ACKACQ")) = 1
          /\ Ioctls = Acks("VT_ACKACQ")
    /\ Acks("1") # {} => (last.kind = "signal_event" /\ last.rd = "SIGRTMIN")
    /\ Acks("VT_ACKACQ") # {} =>
          (last.kind = "signal_event" /\ last.rd = "SIGRTMIN+1")

C9_Witness ==
    /\ last.kind = "signal_event"
    /\ last.rd = "SIGRTMIN"
    /\ ops = <<[op |-> "ioctl", req |-> "VT_RELDISP", arg |-> "1", ok |-> TRUE]>>

-----------------------------------------------------------------------------
(* C10 *)

\* The last handler was given a Disconnected signal, or a SessionRemoved
\* signal that names this session.
FatalSignal ==
    \/ Handled("Disconnected")
    \/ Handled("SessionRemoved") /\ last.m.ok /\ last.m.name = sid

\* ops is the VT restore sequence followed by exit().
RestoredThenExited ==
    /\ Len(ops) = 5
    /\ ops[1].op = "ioctl" /\ ops[1].req = "KDSETMODE" /\ ops[1].arg = "KD_TEXT"
    /\ ops[2].op = "ioctl" /\ ops[2].req = "KDSKBMUTE" /\ ops[2].arg = "0"
    /\ ops[3].op = "ioctl" /\ ops[3].req = "KDSKBMODE" /\ ops[3].arg = kb_mode
    /\ ops[4].op = "ioctl" /\ ops[4].req = "VT_SETMODE" /\ ops[4].arg = "VT_AUTO"
    /\ ops[5].op = "exit"

\* C10: the process exits exactly in the handler of a Disconnected signal or
\* of a SessionRemoved signal that names this session, and there the VT
\* restore sequence runs before exit(); a SessionRemoved signal that names
\* another session restores nothing, does not exit and changes no state.
C10_ExitOnSessionLoss ==
    /\ phase = "exited" <=> FatalSignal
    /\ phase = "exited" => RestoredThenExited
    /\ (Handled("SessionRemoved") /\ last.m.ok /\ last.m.name # sid) =>
          /\ ops = <<>>
          /\ Snapshot = pre
          /\ phase = "running"

C10_Witness ==
    /\ Handled("SessionRemoved")
    /\ phase = "exited"
    /\ RestoredThenExited
    /\ vt.mode = "VT_AUTO"

-----------------------------------------------------------------------------
(* Setup of the VT *)

\* The ioctls req(arg) among the side effects of the last handler, and those
\* of them that succeeded.
IoctlsOf(req, arg) == {i \in Ioctls : ops[i].req = req /\ ops[i].arg = arg}

IoctlsDone(req, arg) == {i \in IoctlsOf(req, arg) : ops[i].ok}

ClosesOf(fd) == {i \in 1..Len(ops) : ops[i].op = "close" /\ ops[i].fd = fd}

\* weston_logind_connect got as far as weston_logind_setup_vt.
SetupVtRan ==
    /\ last.kind = "connect"
    /\ IdentityOk(last.in)
    /\ last.in.bus /\ last.in.dbus = "ok" /\ last.in.tc = "ok"

SetupVtFailed == SetupVtRan /\ last.in.v.stage # "none"

\* The ioctls that silenced the keyboard: KDSKBMUTE 1, or KDSKBMODE K_OFF.
Silenced == IoctlsDone("KDSKBMUTE", "1") \cup IoctlsDone("KDSKBMODE", "K_OFF")

\* C11: whenever weston_logind_setup_vt returns a failure, at every failure
\* point including the test of the real-time signal numbers, the VT
\* descriptor is closed, a console switched to graphics mode is set back to
\* text mode, a silenced keyboard is unmuted and given the saved mode again,
\* and the signal descriptor and its event source are gone, the later steps
\* being undone first.
C11_SetupUnwinds ==
    SetupVtFailed =>
        /\ ~vt.open /\ ~vt.sfd /\ ~vt.sfd_source
        /\ \A g \in IoctlsDone("KDSETMODE", "KD_GRAPHICS") :
              \E t \in IoctlsOf("KDSETMODE", "KD_TEXT") : g < t
        /\ \A m \in Silenced :
              \E u \in IoctlsOf("KDSKBMUTE", "0"), k \in IoctlsOf("KDSKBMODE", kb_mode) :
                  /\ m < u /\ u < k
                  /\ \A t \in IoctlsOf("KDSETMODE", "KD_TEXT") : t < u
                  /\ \A c \in ClosesOf("vt") : k < c

-----------------------------------------------------------------------------
(* Failure of weston_logind_connect *)

OpsOf(op) == {i \in 1..Len(ops) : ops[i].op = op}

\* weston_logind_connect opened the bus connection and then failed.
FailedAfterBus ==
    /\ last.kind = "connect"
    /\ IdentityOk(last.in) /\ last.in.bus
    /\ phase = "failed"

\* The service has replied to TakeControl.
ControlTaken ==
    \E i \in OpsOf("call") : ops[i].member = "TakeControl" /\ ops[i].reply = "ok"

\* The bus connection is closed once, as the last step before the single
\* return of -1, and every ReleaseControl goes out before the close.
ClosedAndFailed ==
    /\ Cardinality(OpsOf("weston_dbus_close")) = 1
    /\ OpsOf("return") = {Len(ops)}
    /\ ops[Len(ops)].val = "-1"
    /\ Len(ops) - 1 \in OpsOf("weston_dbus_close")
    /\ Cardinality(SendsOf("ReleaseControl")) <= 1
    /\ \A s \in SendsOf("ReleaseControl"), c \in OpsOf("weston_dbus_close") : s < c

\* C12 as stated: when connect fails after the bus connection was opened,
\* the connection is closed, ReleaseControl is sent before the close if and
\* only if TakeControl had succeeded, and the caller gets one failure and no
\* session object.
C12_ReleasedIffTaken ==
    FailedAfterBus =>
        /\ ClosedAndFailed
        /\ (SendsOf("ReleaseControl") # {} <=> ControlTaken)

\* C12, amended: ReleaseControl is sent if and only if TakeControl had
\* succeeded and the ReleaseControl message could be allocated.
C12_ReleasedIfBuilt ==
    FailedAfterBus =>
        /\ ClosedAndFailed
        /\ (SendsOf("ReleaseControl") # {}
                <=> (ControlTaken /\ last.in.rc # "nomem_new"))

C12_Witness ==
    /\ FailedAfterBus
    /\ ControlTaken
    /\ last.in.v.stage = "setmode"
    /\ SendsOf("ReleaseControl") # {}
    /\ ~vt.open

\* weston_logind_connect was given a session whose seat is not seat_id, that
\* has no VT, or whose VT is not the requested one.
IdentityFailed ==
    /\ last.kind = "connect"
    /\ last.in.alloc = "ok" /\ last.in.session # "fail"
    /\ \/ last.in.seat # "fail" /\ last.in.seat # last.in.seat_id
       \/ last.in.seat = last.in.seat_id /\ last.in.vtnr < 0
       \/ /\ last.in.seat = last.in.seat_id
          /\ last.in.vtnr >= 0 /\ last.in.tty > 0 /\ last.in.vtnr # last.in.tty

\* C13: when weston_logind_connect fails on the seat or VT of the session, it
\* fails before it opens the bus connection: it registers no filter and no
\* match, sends no TakeControl, opens no VT or signal descriptor and issues
\* no ioctl; the kernel state of the VT is as before.
C13_FailsBeforeBus ==
    IdentityFailed =>
        /\ phase = "failed"
        /\ ops = <<[op |-> "return", val |-> "-1"]>>
        /\ \A o \in {"weston_dbus_open", "add_filter", "add_match", "call",
                      "open", "signalfd", "ioctl"} : OpsOf(o) = {}
        /\ vt = pre.vt

C13_Witness ==
    /\ IdentityFailed
    /\ last.in.seat = last.in.seat_id
    /\ last.in.tty = 2 /\ last.in.vtnr = 1
    /\ phase = "failed"

-----------------------------------------------------------------------------
(* The saved keyboard mode *)

\* setup_vt got as far as reading the keyboard mode.
ModeRecorded == SetupVtRan /\ last.in.v.stage \notin {"open", "fstat"}

\* The last handler took a path that restores the keyboard: the exported
\* restore and destroy, the handlers that end in exit(-1), and the unwinding
\* of setup_vt from err_kbmode on.
RestoringPath ==
    \/ last.kind \in {"restore", "destroy"}
    \/ phase = "exited"
    \/ SetupVtFailed
          /\ last.in.v.stage \in {"graphics", "signalfd", "source", "setmode"}

\* The KDSKBMODE ioctls that follow an unmute.
ModeWrites ==
    {i \in Ioctls : ops[i].req = "KDSKBMODE"
                     /\ \E u \in IoctlsOf("KDSKBMUTE", "0") : u < i}

KeyboardRestored ==
    /\ ModeRecorded =>
          kb_mode = (IF last.in.v.readok /\ pre.vt.kbmode # "K_OFF"
                     THEN pre.vt.kbmode ELSE "K_UNICODE")
    /\ (ModeRecorded \/ phase \in {"running", "exited", "destroyed"}) =>
          kb_mode \in KbModes
    /\ RestoringPath =>
          /\ ModeWrites # {}
          /\ \A i \in ModeWrites : ops[i].arg = kb_mode

\* C14: every path that restores the keyboard (restore, destroy, the handlers
\* that exit, the unwinding of a setup that fails once the keyboard is
\* silenced) writes the keyboard mode saved at setup, which no later step
\* changes and which is never K_OFF: it is the mode read from the kernel, or
\* K_UNICODE when the read failed or gave K_OFF.
C14_SavedModeRestored ==
    /\ []KeyboardRestored
    /\ [][phase = "running" => kb_mode' = kb_mode]_vars

C14_Witness ==
    /\ SetupVtFailed
    /\ last.in.v.stage = "graphics"
    /\ last.in.v.readok /\ pre.vt.kbmode = "K_OFF"
    /\ IoctlsDone("KDSKBMODE", "K_UNICODE") # {}
    /\ vt.kbmode = "K_UNICODE"

-----------------------------------------------------------------------------
(* Teardown *)

Before(A, B) == \A a \in A, b \in B : a < b

One(A) == Cardinality(A) = 1

\* The steps of weston_logind_destroy other than ReleaseControl, each made
\* once and in the order of the code: the pending query (if any) is
\* cancelled, the VT is restored, the signal source is removed, the signal
\* and VT descriptors are closed, spath is freed, the bus is closed.
DestroySteps ==
    /\ OpsOf("cancel") =
          (IF pre.pending_active # 0 THEN {1} ELSE {})
    /\ \A i \in OpsOf("cancel") : ops[i].id = pre.pending_active
    /\ Cardinality(Ioctls) = 4
    /\ One(IoctlsOf("VT_SETMODE", "VT_AUTO"))
    /\ One(OpsOf("wl_event_source_remove"))
    /\ One(ClosesOf("sfd")) /\ One(ClosesOf("vt"))
    /\ One(OpsOf("free")) /\ One(OpsOf("weston_dbus_close"))
    /\ Before(OpsOf("cancel"), Ioctls)
    /\ Before(Ioctls, OpsOf("wl_event_source_remove"))
    /\ Before(OpsOf("wl_event_source_remove"), ClosesOf("sfd"))
    /\ Before(ClosesOf("sfd"), ClosesOf("vt"))
    /\ Before(ClosesOf("vt"), SendsOf("ReleaseControl"))
    /\ Before(ClosesOf("vt"), OpsOf("free"))
    /\ Before(SendsOf("ReleaseControl"), OpsOf("free"))
    /\ Before(OpsOf("free"), OpsOf("weston_dbus_close"))

\* No reply of a query can reach the active flag any more: the connection
\* holds no call with a notify function, and destroy left the flag alone.
NoReplyApplied ==
    /\ calls = {}
    /\ pending_active # 0 => pending_active \in cancelled
    /\ session_active = pre.session_active
    /\ SignalCount(ops) = 0

\* C15 as stated: destroy cancels the pending query, restores the VT and
\* closes its resources, sends ReleaseControl, frees the bus state and closes
\* the bus, in this order; the VT is in automatic switch mode when
\* ReleaseControl is sent, and no reply is applied once destroy has started.
C15_DestroyOrder ==
    last.kind = "destroy" =>
        /\ DestroySteps
        /\ One(SendsOf("ReleaseControl"))
        /\ vt.mode = "VT_AUTO"
        /\ NoReplyApplied

\* C15, amended: ReleaseControl is sent at its place unless its message
\* cannot be allocated, and the ioctl that sets automatic switch mode has
\* been issued before it; the VT is in automatic mode by then unless that
\* ioctl failed.
C15_DestroyOrderBestEffort ==
    last.kind = "destroy" =>
        /\ DestroySteps
        /\ Cardinality(SendsOf("ReleaseControl")) =
              (IF last.o = "nomem_new" THEN 0 ELSE 1)
        /\ Before(IoctlsOf("VT_SETMODE", "VT_AUTO"), SendsOf("ReleaseControl"))
        /\ last.rr[4] => vt.mode = "VT_AUTO"
        /\ NoReplyApplied

C15_Witness ==
    /\ last.kind = "destroy"
    /\ pre.pending_active # 0
    /\ pre.pending_active \in pre.calls
    /\ One(SendsOf("ReleaseControl"))
    /\ vt.mode = "VT_AUTO"
    /\ phase = "destroyed"

-----------------------------------------------------------------------------
(* Restoring the VT *)

\* The last handler ran weston_logind_restore, with the ioctl results
\* RestoreInput: the exported restore and destroy, and the handlers that end
\* in exit(-1).
RestoreRan == last.kind \in {"restore", "destroy"} \/ phase = "exited"

RestoreInput == IF last.kind = "filter_dbus" THEN last.in.rr ELSE last.rr

RestoreSteps ==
    <<[req |-> "KDSETMODE", arg |-> "KD_TEXT"],
      [req |-> "KDSKBMUTE", arg |-> "0"],
      [req |-> "KDSKBMODE", arg |-> kb_mode],
      [req |-> "VT_SETMODE", arg |-> "VT_AUTO"]>>

\* The four ioctls of the restore are ops[a+1..a+4], whatever their results.
RestoredFrom(a) ==
    /\ Ioctls = (a + 1)..(a + 4)
    /\ \A k \in 1..4 :
          ops[a + k] = [op |-> "ioctl", req |-> RestoreSteps[k].req,
                        arg |-> RestoreSteps[k].arg, ok |-> RestoreInput[k]]

\* C16: the restore of the VT issues its four ioctls in the order text mode,
\* unmute, saved keyboard mode, automatic VT switching, whether or not an
\* earlier one fails; in destroy they are followed at once by the removal of
\* the signal source, the close of the signal descriptor and the close of
\* the VT descriptor.
C16_RestoreOrder ==
    RestoreRan =>
        \E a \in 0..Len(ops) :
            /\ RestoredFrom(a)
            /\ last.kind = "destroy" =>
                  /\ Len(ops) >= a + 7
                  /\ ops[a + 5] = [op |-> "wl_event_source_remove"]
                  /\ ops[a + 6] = [op |-> "close", fd |-> "sfd"]
                  /\ ops[a + 7] = [op |-> "close", fd |-> "vt"]
                  /\ ~vt.sfd_source /\ ~vt.sfd /\ ~vt.open

C16_Witness ==
    /\ last.kind = "destroy"
    /\ ~last.rr[1] /\ ~last.rr[3] /\ last.rr[4]
    /\ vt.kd = "KD_GRAPHICS"
    /\ vt.mode = "VT_AUTO"
    /\ ~vt.open

-----------------------------------------------------------------------------
(* The status flags of an opened device *)

OpenSucceeded ==
    /\ last.kind = "open"
    /\ ops[Len(ops)] = [op |-> "return", val |-> "fd"]

\* The status flags the returned descriptor has: those of the last
\* successful F_SETFL.
FinalFlags ==
    LET S == {i \in OpsOf("fcntl") : ops[i].cmd = "F_SETFL" /\ ops[i].ok}
    IN  ops[CHOOSE i \in S : \A j \in S : j <= i].fl

\* C17: after a successful weston_logind_open(path, flags) the descriptor is
\* non-blocking if and only if flags has O_NONBLOCK, whatever the descriptor
\* of the service was, and its other status flags are those the service
\* gave it.
C17_NonblockMatches ==
    OpenSucceeded =>
        /\ ("O_NONBLOCK" \in FinalFlags) = ("O_NONBLOCK" \in last.in.flags)
        /\ FinalFlags \ {"O_NONBLOCK"} = last.in.fl \ {"O_NONBLOCK"}

-----------------------------------------------------------------------------
(* PropertiesChanged *)

\* A PropertiesChanged signal of the shape the bus specification gives it:
\* an interface name, a map from property names to variants and an array of
\* names; the Active property is a boolean.
WellFormed(m) ==
    /\ m.a0 = "string" /\ m.a1 = "array" /\ m.a2 = "array"
    /\ \A i \in 1..Len(m.changed_props) :
          LET e == m.changed_props[i]
          IN  /\ e.ktype = "string" /\ e.hasval
              /\ e.val.type = "variant"
              /\ e.name = "Active" => e.val.inner = "boolean"

ActiveChanged(m) ==
    {i \in 1..Len(m.changed_props) : m.changed_props[i].name = "Active"}

ActiveInvalidated(m) ==
    \E i \in 1..Len(m.invalidated) : m.invalidated[i] = "Active"

\* The value of the Active entry of the changed-properties map.
ActiveValue(m) ==
    m.changed_props[CHOOSE i \in ActiveChanged(m) :
                        \A j \in ActiveChanged(m) : i <= j].val.b

WellFormedSignal == Handled("PropertiesChanged") /\ WellFormed(last.m)

\* The signal carries Active: the value is given to the active flag (which
\* takes it, except that with sync_drm a true waits for the DRM device), and
\* no query is made.
AppliedInline ==
    /\ session_active =
          (IF sync_drm /\ ActiveValue(last.m) THEN pre.session_active
           ELSE ActiveValue(last.m))
    /\ Signals = (IF session_active # pre.session_active THEN 1 ELSE 0)
    /\ OpsOf("send_with_reply") = {}
    /\ pending_active = pre.pending_active /\ calls = pre.calls

FlagKept == session_active = pre.session_active /\ Signals = 0

Untouched == ops = <<>> /\ Snapshot = pre

-----------------------------------------------------------------------------
(* ResumeDevice *)

ResumeHandled == Handled("ResumeDevice") /\ last.m.ok

\* The flag is true, one session signal was emitted if it was false, and
\* nothing else happened.
WokenUp ==
    /\ session_active
    /\ Signals = (IF pre.session_active THEN 0 ELSE 1)
    /\ Len(ops) = Signals
    /\ [Snapshot EXCEPT !.session_active = pre.session_active] = pre

\* C19 as stated: a ResumeDevice notification of the DRM major leaves the
\* active flag true, with one session signal if it was false; one of another
\* major changes no state and sends nothing.
C19_ResumeWakes ==
    ResumeHandled =>
        IF last.m.major = DRM_MAJOR THEN WokenUp ELSE Untouched

\* C19, amended: this holds with sync_drm set; without it a ResumeDevice
\* notification of any major changes no state and sends nothing.
C19_ResumeWakesSynced ==
    ResumeHandled =>
        IF sync_drm /\ last.m.major = DRM_MAJOR THEN WokenUp ELSE Untouched

C19_Witness ==
    /\ ResumeHandled
    /\ sync_drm /\ last.m.major = DRM_MAJOR
    /\ ~pre.session_active /\ session_active
    /\ Signals = 1

-----------------------------------------------------------------------------
(* The steps of a query *)

\* The calls the connection holds with a notify function after the first k
\* side effects of the last handler.
Attached(k) ==
    (pre.calls \cup {ops[i].id : i \in {j \in OpsOf("set_notify") : j <= k}})
        \ {ops[i].id : i \in {j \in OpsOf("cancel") : j <= k}}

\* The last handler sent a query while an older one was pending.
Requeried ==
    /\ Handled("PropertiesChanged")
    /\ OpsOf("send_with_reply") # {}
    /\ pre.pending_active # 0

CancelsOfOld == {i \in OpsOf("cancel") : ops[i].id = pre.pending_active}

-----------------------------------------------------------------------------
(* Malformed payloads *)

BooleanVariant(v) == v.type = "variant" /\ v.inner = "boolean"

\* The last handler was given a payload of a wrong shape: a signal whose
\* arguments do not have the types of its signature, or a reply to the
\* Active query that is an error or carries no boolean variant.
MalformedPayload ==
    \/ Handled("PropertiesChanged") /\ ~WellFormed(last.m)
    \/ Handled("PauseDevice") /\ ~last.m.ok
    \/ Handled("ResumeDevice") /\ ~last.m.ok
    \/ Handled("SessionRemoved") /\ ~last.m.ok
    \/ /\ last.kind = "get_active_cb"
       /\ \/ last.reply.type # "method_return"
          \/ ~last.reply.hasargs
          \/ ~BooleanVariant(last.reply.val)

\* The handler left the flag alone, emitted no session signal, sent nothing
\* on the bus, made no query, did not touch the VT and did not exit.
Ignored ==
    /\ session_active = pre.session_active
    /\ Signals = 0
    /\ OpsOf("send") = {} /\ OpsOf("call") = {}
    /\ OpsOf("send_with_reply") = {} /\ OpsOf("set_notify") = {}
    /\ Ioctls = {} /\ vt = pre.vt
    /\ OpsOf("exit") = {} /\ phase = "running"

\* C21: a PropertiesChanged, PauseDevice, ResumeDevice or SessionRemoved
\* signal with arguments of a wrong shape, and a query reply that is an error
\* or carries no boolean variant, leave the active flag unchanged, emit no
\* session signal, send no message, issue no query, and neither restore the
\* VT nor end the process.
C21_MalformedIgnored == MalformedPayload => Ignored

-----------------------------------------------------------------------------
(* VT switching and session control *)

ModeSets == {i \in Ioctls : ops[i].req = "VT_SETMODE"}

\* The switch mode of the VT after the first k side effects of the last
\* handler.
ModeAt(k) ==
    LET S == {i \in ModeSets : ops[i].ok /\ i <= k}
    IN  IF S = {} THEN pre.vt.mode
        ELSE ops[CHOOSE i \in S : \A j \in S : j <= i].arg

\* TakeControl has been answered before step k of weston_logind_connect.
TakenBefore(k) ==
    \E i \in OpsOf("call") :
        i < k /\ ops[i].member = "TakeControl" /\ ops[i].reply = "ok"

\* The session holds no control: before connect, after a failed connect,
\* after destroy and after exit(-1).
NoSession == phase \in {"unconnected", "failed", "destroyed", "exited"}

\* C22 as stated: the VT is in process-controlled switch mode only while
\* the session control is held: VT_PROCESS is set only after TakeControl has
\* succeeded, ReleaseControl is sent only when the VT is in automatic mode
\* again (or never left it), and connect, destroy and the handlers that exit
\* leave no VT in process mode behind.
C22_ProcessOnlyWhileHeld ==
    /\ \A p \in IoctlsOf("VT_SETMODE", "VT_PROCESS") : TakenBefore(p)
    /\ \A r \in SendsOf("ReleaseControl") : ModeAt(r) = "VT_AUTO"
    /\ NoSession => vt.mode = "VT_AUTO"

\* C22, amended: ReleaseControl is sent, and the process exits, only after
\* the ioctl that sets automatic mode has been issued; the VT is then in
\* automatic mode unless that ioctl failed.
C22_AutoRequestedFirst ==
    /\ \A p \in IoctlsOf("VT_SETMODE", "VT_PROCESS") : TakenBefore(p)
    /\ \A r \in SendsOf("ReleaseControl") :
          \/ ModeAt(r) = "VT_AUTO"
          \/ \E a \in IoctlsOf("VT_SETMODE", "VT_AUTO") : a < r /\ ~ops[a].ok
    /\ \A e \in OpsOf("exit") :
          \E a \in IoctlsOf("VT_SETMODE", "VT_AUTO") : a < e
    /\ NoSession =>
          \/ vt.mode = "VT_AUTO"
          \/ \E a \in IoctlsOf("VT_SETMODE", "VT_AUTO") : ~ops[a].ok

C22_Witness ==
    /\ last.kind = "destroy"
    /\ pre.vt.mode = "VT_PROCESS"
    /\ \E r \in SendsOf("ReleaseControl") : ModeAt(r) = "VT_AUTO"
    /\ vt.mode = "VT_AUTO"

====
